---------------------------- MODULE Spec2Model ----------------------------
(***************************************************************************)
(* A model of app/main.py, the Whisper subtitle API.                       *)
(*                                                                         *)
(* Two specifications are given.                                           *)
(*                                                                         *)
(*   Spec     the /subtitles handler as run by the server: NumReq          *)
(*            requests, each a coroutine on the one event loop of the      *)
(*            process, the module-level model cache _models, and the file  *)
(*            system the handler stages its files in.  The clean-up runs   *)
(*            as a synchronous background task, that is in a worker        *)
(*            thread, so its steps interleave with the coroutines.         *)
(*                                                                         *)
(*   SpecFmt  the pure helpers format_timestamp, wrap_caption, build_srt   *)
(*            and build_vtt, applied to inputs drawn from bounded sets.    *)
(*                                                                         *)
(* Texts are sequences of one-character strings.  A path is the sequence   *)
(* of its components from the root; a component is a record of the stem    *)
(* and the suffix of its name (pathlib's .stem and .suffix).               *)
(***************************************************************************)
EXTENDS Integers, Sequences, FiniteSets, TLC

VARIABLES
    models,      \* _models: size key -> handle, NoHandle when the key is absent
    handles,     \* number of handles the loader has created so far
    loadCalls,   \* per key: invocations of whisper.load_model
    loadOk,      \* per key: invocations that returned a handle
    running,     \* the request whose coroutine holds the event loop, 0 if none
    pc,          \* per request: the place of its handler
    filename,    \* per request: file.filename
    model_size,  \* per request: the model_size parameter, once read
    tmp_dir,     \* per request: the directory mkdtemp returned
    audio_path,  \* per request: Path(tmp_dir) / file.filename (local)
    sub_path,    \* per request: audio_path.with_suffix(ext), the response's path
    model,       \* per request: the handle get_model returned (local)
    status,      \* per request: HTTP status of the response, 0 before it
    dirs,        \* the directories on disk
    files,       \* the regular files on disk
    did,         \* per request: the expensive work it has started (history)
    overlapped,  \* pairs of requests that were in flight together (history)
    call,        \* SpecFmt: the helper called and its arguments
    ret          \* SpecFmt: what the call returned, NotReturned before

srvVars == <<models, handles, loadCalls, loadOk, running, pc, filename,
             model_size, tmp_dir, audio_path, sub_path, model, status, dirs,
             files, did, overlapped>>

fmtVars == <<call, ret>>

vars == <<srvVars, fmtVars>>

-----------------------------------------------------------------------------
(* Bounds of the model. *)

NumReq == 2

Requests == 1..NumReq

(* Values of fields not set yet: no size key, no handle (handles count from
   1), no path, no upload. *)
None == "None"

NoHandle == 0

NoPath == <<[stem |-> "", suffix |-> ""]>>

NoUpload == [abs |-> FALSE, parts |-> NoPath]

(* Query("small", regex="^(tiny|base|small|medium|large)$"): two of the five
   keys are enough to tell same-key from different-key calls. *)
ModelSizes == {"tiny", "small"}

-----------------------------------------------------------------------------
(* Paths. *)

Comp(stem, suffix) == [stem |-> stem, suffix |-> suffix]

Root == <<>>

TmpRoot == <<Comp("tmp", "")>>

DotDot == Comp("..", "")

(* The upload names a client may send: none, a plain name "a.wav", a name
   with a parent-directory component "../a.wav", a name with a subdirectory
   "d/a.wav".  (An absolute name "/tmp/a.wav" reaches the same file as
   "../a.wav" and is left out.) *)
Filenames ==
    { [abs |-> FALSE, parts |-> <<>>],
      [abs |-> FALSE, parts |-> <<Comp("a", ".wav")>>],
      [abs |-> FALSE, parts |-> <<DotDot, Comp("a", ".wav")>>],
      [abs |-> FALSE, parts |-> <<Comp("d", ""), Comp("a", ".wav")>>] }

(* tempfile.mkdtemp(prefix="whisper_"): a fresh directory under the
   temporary root, named apart from every other request's. *)
MkdtempName(r) == TmpRoot \o <<Comp("whisper_" \o ToString(r), "")>>

(* pathlib's "/": an absolute right operand replaces the left one. *)
JoinPath(base, fn) == IF fn.abs THEN fn.parts ELSE base \o fn.parts

(* Path.with_suffix(ext): the suffix of the last component replaced. *)
WithSuffix(p, ext) ==
    [p EXCEPT ![Len(p)] = Comp(p[Len(p)].stem, ext)]

(* The file the operating system reaches for a path: ".." steps to the
   parent, and stays at the root there. *)
RECURSIVE Resolve(_)
Resolve(p) ==
    IF p = <<>> THEN <<>>
    ELSE LET front == Resolve(SubSeq(p, 1, Len(p) - 1))
             last  == p[Len(p)]
         IN  IF last = DotDot
             THEN IF front = <<>> THEN <<>>
                  ELSE SubSeq(front, 1, Len(front) - 1)
             ELSE Append(front, last)

Parent(p) == SubSeq(p, 1, Len(p) - 1)

IsInside(p, d) ==
    /\ Len(p) > Len(d)
    /\ SubSeq(p, 1, Len(d)) = d

(* The entries of directory d. *)
Children(d) ==
    {f \in files : Parent(f) = d} \cup {x \in dirs : x # Root /\ Parent(x) = d}

(* open(path, "w"): every directory on the way exists and the target is no
   directory. *)
RECURSIVE DirsExist(_)
DirsExist(p) ==
    IF p = <<>> THEN TRUE
    ELSE /\ DirsExist(SubSeq(p, 1, Len(p) - 1))
         /\ Resolve(p) \in dirs

CanWrite(p) ==
    /\ p # <<>>
    /\ DirsExist(Parent(p))
    /\ Resolve(p) \notin dirs

-----------------------------------------------------------------------------
(* The event loop. *)

(* The places where a handler's coroutine is suspended and the loop runs
   another one: "await file.read()", and the sending of the response after
   the handler has returned. *)
AwaitPointsInLoad == {"read", "send", "load"}

AwaitPoints == {"read", "send"}

(* Places with nothing left to run on the loop: not arrived, the clean-up
   (a synchronous BackgroundTask runs in a worker thread), finished. *)
OffLoop == {"idle", "cleanup", "done"}

InFlight(r) == pc[r] \notin {"idle", "done"}

(* Requests are numbered in the order in which they arrive. *)
NextToArrive(r) == pc[r] = "idle" /\ \A q \in Requests : q < r => pc[q] # "idle"

MayRun(r) == running \in {0, r}

Together(r, p) ==
    IF p \in {"idle", "done"} THEN {}
    ELSE {{r, q} : q \in {q \in Requests : q # r /\ InFlight(q)}}

(* A step of r's coroutine to place p: it keeps the loop unless it is
   suspended or finished there. *)
Goto(r, p) ==
    /\ UNCHANGED fmtVars
    /\ pc' = [pc EXCEPT ![r] = p]
    /\ running' = IF p \in AwaitPoints \cup OffLoop THEN 0 ELSE r
    /\ overlapped' = overlapped \cup Together(r, p)

(* A step of r's clean-up thread to place p: the loop is not involved. *)
ThreadGoto(r, p) ==
    /\ UNCHANGED fmtVars
    /\ pc' = [pc EXCEPT ![r] = p]
    /\ UNCHANGED <<running, overlapped>>

SrvInit ==
    /\ models = [k \in ModelSizes |-> NoHandle]
    /\ handles = 0
    /\ loadCalls = [k \in ModelSizes |-> 0]
    /\ loadOk = [k \in ModelSizes |-> 0]
    /\ running = 0
    /\ pc = [r \in Requests |-> "idle"]
    /\ filename = [r \in Requests |-> NoUpload]
    /\ model_size = [r \in Requests |-> None]
    /\ tmp_dir = [r \in Requests |-> NoPath]
    /\ audio_path = [r \in Requests |-> NoPath]
    /\ sub_path = [r \in Requests |-> NoPath]
    /\ model = [r \in Requests |-> NoHandle]
    /\ status = [r \in Requests |-> 0]
    /\ dirs = {Root, TmpRoot}
    /\ files = {}
    /\ did = [r \in Requests |-> {}]
    /\ overlapped = {}




-----------------------------------------------------------------------------
(* Texts. *)

Space == " "

Newline == "\n"

Hyphen == "-"

(* str.strip() and textwrap's _whitespace: of the whitespace characters the
   texts of the model hold the space and the line feed. *)
IsSpace(c) == c \in {Space, Newline}

(* textwrap's letter class [^\d\W]: the texts of the model hold one letter. *)
IsLetter(c) == c = "a"

At(t, i) == IF i \in 1..Len(t) THEN t[i] ELSE ""

Repeat(c, n) == [i \in 1..n |-> c]

(* The least element of a non-empty set of numbers, and the greatest. *)
Least(S) == CHOOSE x \in S : \A y \in S : x <= y

Greatest(S) == CHOOSE x \in S : \A y \in S : x >= y

(* seg["text"].strip(): from the first character that is no whitespace to
   the last one. *)
Strip(t) ==
    LET solid == {i \in 1..Len(t) : ~IsSpace(t[i])}
    IN  IF solid = {} THEN <<>> ELSE SubSeq(t, Least(solid), Greatest(solid))

RECURSIVE Join(_, _)
(* sep.join(parts) *)
Join(parts, sep) ==
    IF parts = <<>> THEN <<>>
    ELSE IF Len(parts) = 1 THEN parts[1]
    ELSE parts[1] \o sep \o Join(Tail(parts), sep)

-----------------------------------------------------------------------------
(* textwrap.wrap(text, width=width, break_long_words=False), as wrap_caption
   calls it (line 33): the other options at their defaults, expand_tabs,
   replace_whitespace, drop_whitespace and break_on_hyphens all on. *)

(* TextWrapper._munge_whitespace: each whitespace character becomes a space. *)
Munge(t) == [i \in 1..Len(t) |-> IF IsSpace(t[i]) THEN Space ELSE t[i]]

(* wordsep_re's hyphenated-word alternative for the hyphen at h: behind it
   two letters, or letter-hyphen-letter; ahead a letter, an optional hyphen
   and a letter. *)
HyphenBreak(t, h) ==
    /\ At(t, h) = Hyphen
    /\ \/ IsLetter(At(t, h - 2)) /\ IsLetter(At(t, h - 1))
       \/ /\ IsLetter(At(t, h - 3))
          /\ At(t, h - 2) = Hyphen
          /\ IsLetter(At(t, h - 1))
    /\ IsLetter(At(t, h + 1))
    /\ \/ IsLetter(At(t, h + 2))
       \/ At(t, h + 2) = Hyphen /\ IsLetter(At(t, h + 3))

(* The whitespace alternative of wordsep_re: the run of spaces from i on. *)
SpaceEnd(t, i) ==
    Least({j \in i..Len(t) : j = Len(t) \/ t[j + 1] # Space})

(* The word alternative of wordsep_re, non-greedy: the shortest run of
   non-whitespace from i on that ends a chunk, after a breaking hyphen or at
   the end of the word. *)
WordEnd(t, i) ==
    LET j == Least({k \in i..Len(t) : \/ HyphenBreak(t, k + 1)
                                      \/ k = Len(t)
                                      \/ t[k + 1] = Space})
    IN  IF HyphenBreak(t, j + 1) THEN j + 1 ELSE j

RECURSIVE ChunksFrom(_, _)
(* TextWrapper._split: the chunks of munged text t from index i on, each a
   pair of its first and last index. *)
ChunksFrom(t, i) ==
    IF i > Len(t) THEN <<>>
    ELSE LET e == IF t[i] = Space THEN SpaceEnd(t, i) ELSE WordEnd(t, i)
         IN  <<<<i, e>>>> \o ChunksFrom(t, e + 1)

ChunkLen(ch) == ch[2] - ch[1] + 1

RECURSIVE Fill(_, _, _, _)
(* The inner loop of _wrap_chunks: with chunks c..k-1 on the line and cur_len
   their length, the last chunk that still fits in width. *)
Fill(chunks, k, cur_len, width) ==
    IF k <= Len(chunks) /\ cur_len + ChunkLen(chunks[k]) <= width
    THEN Fill(chunks, k + 1, cur_len + ChunkLen(chunks[k]), width)
    ELSE k - 1

(* TextWrapper._handle_long_word with break_long_words off: a chunk wider
   than the line is taken whole, and only onto an empty line. *)
TakeLongWord(chunks, c, k, width) ==
    IF k + 1 <= Len(chunks) /\ ChunkLen(chunks[k + 1]) > width /\ k < c
    THEN k + 1
    ELSE k

RECURSIVE WrapChunks(_, _, _, _, _)
(* TextWrapper._wrap_chunks: the lines made of chunks c.. of t, after lines. *)
WrapChunks(t, chunks, c, width, lines) ==
    IF c > Len(chunks) THEN lines
    ELSE LET isWs(ch) == t[ch[1]] = Space
             c1   == IF isWs(chunks[c]) /\ lines # <<>> THEN c + 1 ELSE c
             k    == TakeLongWord(chunks, c1, Fill(chunks, c1, 0, width), width)
             last == IF k >= c1 /\ isWs(chunks[k]) THEN k - 1 ELSE k
         IN  IF c1 > Len(chunks) THEN lines
             ELSE WrapChunks(t, chunks, k + 1, width,
                      IF last >= c1
                      THEN Append(lines, SubSeq(t, chunks[c1][1], chunks[last][2]))
                      ELSE lines)

TextwrapWrap(text, width) ==
    LET t == Munge(text) IN WrapChunks(t, ChunksFrom(t, 1), 1, width, <<>>)

(* wrap_caption's result: None, or a string. *)
NoneStr == [isNone |-> TRUE, str |-> <<>>]

SomeStr(t) == [isNone |-> FALSE, str |-> t]

(* wrap_caption, lines 31-34. *)
WrapCaption(text, width) ==
    LET lines == TextwrapWrap(text, width)
    IN  IF Len(lines) > 2 THEN NoneStr ELSE SomeStr(Join(lines, <<Newline>>))

-----------------------------------------------------------------------------
(* format_timestamp, lines 23-29.  The float seconds is modelled exactly, as
   a whole number of half milliseconds, so that round() meets its ties. *)

MsPerHour == 3600000

MsPerMinute == 60000

MsPerSecond == 1000

DigitChars == <<"0", "1", "2", "3", "4", "5", "6", "7", "8", "9">>

RECURSIVE ToStr(_)
(* The decimal digits of n >= 0. *)
ToStr(n) ==
    IF n < 10 THEN <<DigitChars[n + 1]>>
    ELSE Append(ToStr(n \div 10), DigitChars[(n % 10) + 1])

(* A mistaken zero-padding that keeps only the last w digits. *)
PadCut(n, w) ==
    LET str == ToStr(n)
    IN  IF Len(str) >= w THEN SubSeq(str, Len(str) - w + 1, Len(str))
        ELSE Repeat("0", w - Len(str)) \o str

(* The format specs ":02d" and ":03d": zero-padded to at least w digits. *)
Pad(n, w) ==
    LET str == ToStr(n)
    IN  IF Len(str) >= w THEN str ELSE Repeat("0", w - Len(str)) \o str

(* int(round(seconds * 1000)): to the nearest millisecond, a tie to the even
   one. *)
RoundMillis(halfms) ==
    LET q == halfms \div 2
    IN  IF halfms % 2 = 0 THEN q
        ELSE IF q % 2 = 0 THEN q ELSE q + 1

FormatTimestamp(halfms) ==
    LET millis0 == RoundMillis(halfms)
        hrs     == millis0 \div MsPerHour
        millis1 == millis0 % MsPerHour
        mins    == millis1 \div MsPerMinute
        millis2 == millis1 % MsPerMinute
        secs    == millis2 \div MsPerSecond
        millis  == millis2 % MsPerSecond
    IN  Pad(hrs, 2) \o <<":">> \o Pad(mins, 2) \o <<":">> \o Pad(secs, 2)
            \o <<",">> \o Pad(millis, 3)

(* str.replace(',', '.') *)
CommaToDot(t) == [i \in 1..Len(t) |-> IF t[i] = "," THEN "." ELSE t[i]]

-----------------------------------------------------------------------------
(* build_srt and build_vtt, lines 38-55.  A segment is a record of start and
   end (in half milliseconds) and text. *)

Arrow == <<" ", "-", "-", ">", " ">>

(* wrap_caption(seg["text"].strip(), max_chars) or seg["text"].strip():
   None and the empty string both give way to the stripped text. *)
Wrapped(seg, max_chars) ==
    LET w == WrapCaption(Strip(seg.text), max_chars)
    IN  IF w.isNone \/ w.str = <<>> THEN Strip(seg.text) ELSE w.str

(* The f-string of lines 42-44. *)
SrtBlock(idx, seg, max_chars) ==
    ToStr(idx) \o <<Newline>>
        \o FormatTimestamp(seg.start) \o Arrow \o FormatTimestamp(seg.end)
        \o <<Newline>> \o Wrapped(seg, max_chars) \o <<Newline>>

(* The f-string of lines 52-54. *)
VttBlock(seg, max_chars) ==
    CommaToDot(FormatTimestamp(seg.start)) \o Arrow
        \o CommaToDot(FormatTimestamp(seg.end))
        \o <<Newline>> \o Wrapped(seg, max_chars) \o <<Newline>>

(* "idx += 1" left out of the loop. *)
NextIdxStuck(idx) == idx

(* "idx += 1" *)
NextIdx(idx) == idx + 1

RECURSIVE SrtLoop(_, _, _, _, _)
(* The loop of build_srt from the i-th segment on, with idx and lines as the
   earlier turns left them. *)
SrtLoop(segments, i, idx, lines, max_chars) ==
    IF i > Len(segments) THEN lines
    ELSE SrtLoop(segments, i + 1, NextIdx(idx),
                 Append(lines, SrtBlock(idx, segments[i], max_chars)), max_chars)

BuildSrt(segments, max_chars) ==
    Join(SrtLoop(segments, 1, 1, <<>>, max_chars), <<Newline>>)

VttHeader == <<"W", "E", "B", "V", "T", "T", Newline>>

RECURSIVE VttLoop(_, _, _, _)
VttLoop(segments, i, out, max_chars) ==
    IF i > Len(segments) THEN out
    ELSE VttLoop(segments, i + 1,
                 Append(out, VttBlock(segments[i], max_chars)), max_chars)

BuildVtt(segments, max_chars) ==
    Join(VttLoop(segments, 1, <<VttHeader>>, max_chars), <<Newline>>)

-----------------------------------------------------------------------------
(* The calls of the helpers that SpecFmt follows. *)

(* Bounds of the inputs. *)
MaxPieces == 4

MaxSegs == 3

MaxHours == 100

(* max_chars: Query(42, ge=20, le=80), line 65. *)
MinChars == 20

DefaultChars == 42

MaxChars == 80

Widths == {MinChars, DefaultChars, MaxChars}

(* Texts are made of at most MaxPieces pieces: a word of one letter, of nine
   and of forty-one letters (longer than MinChars), a space, a line feed and
   a hyphen.  No two hyphens are adjacent: textwrap's em-dash rule is not
   modelled. *)
Pieces ==
    { <<"a">>, Repeat("a", 9), Repeat("a", 41), <<Space>>, <<Newline>>,
      <<Hyphen>> }

RECURSIVE TextsOf(_)
TextsOf(n) ==
    IF n = 0 THEN {<<>>}
    ELSE LET shorter == TextsOf(n - 1)
         IN  shorter \cup
             {t \o p : t \in shorter, p \in Pieces}

NoDoubleHyphen(t) ==
    \A i \in 1..(Len(t) - 1) : ~(t[i] = Hyphen /\ t[i + 1] = Hyphen)

Texts == {t \in TextsOf(MaxPieces) : NoDoubleHyphen(t)}

(* seconds values: whole hours up to MaxHours plus an offset inside the
   hour, on and between whole milliseconds. *)
Offsets ==
    {0, 1, 999, 1000, 1200, 59999, 60000, 61001, 3599999, 1830500}

SecondsValues ==
    {2 * (h * MsPerHour + off) + f : h \in 0..MaxHours, off \in Offsets,
                                      f \in {0, 1}}

Seg(start, end, text) == [start |-> start, end |-> end, text |-> text]

(* Segments as the model runtime may return them: in order, out of order
   (the end before the start), with text that wraps, that overflows two
   lines, that needs stripping, and with no text. *)
SegSamples ==
    { Seg(0, 2400, <<Space, "a", "a", Space, "a", Newline>>),
      Seg(2400, 5000, Repeat("a", 9) \o <<Space>> \o Repeat("a", 9)
                          \o <<Space>> \o Repeat("a", 9)),
      Seg(2000, 1000, Repeat("a", 21) \o <<Space>> \o Repeat("a", 21)
                          \o <<Space>> \o Repeat("a", 21)),
      Seg(7322999, 2 * 100 * MsPerHour, <<>>) }

RECURSIVE SeqsOf(_, _)
SeqsOf(S, n) ==
    IF n = 0 THEN {<<>>}
    ELSE LET shorter == SeqsOf(S, n - 1)
         IN  shorter \cup {Append(q, x) : q \in shorter, x \in S}

Calls ==
    {[fn |-> "format_timestamp", seconds |-> x] : x \in SecondsValues}
    \cup {[fn |-> "wrap_caption", text |-> Strip(t), width |-> w] :
              t \in Texts, w \in Widths}
    \cup {[fn |-> f, segments |-> q, max_chars |-> w] :
              f \in {"build_srt", "build_vtt"},
              q \in SeqsOf(SegSamples, MaxSegs), w \in Widths}

NotReturned == [done |-> FALSE, val |-> <<>>]

Returned(v) == [done |-> TRUE, val |-> v]

NoCall == [fn |-> "none"]

(* Under Spec no helper call is followed. *)
FmtIdle == call = NoCall /\ ret = NotReturned

-----------------------------------------------------------------------------
(* get_model, lines 15-19. *)

(* "if model_size not in _models": the next place is the load when the key
   is absent and the return when it is present. *)
AfterCheckAlwaysLoad(k) == "load"

AfterCheck(k) == IF models[k] = NoHandle THEN "load" ELSE "ret"

(* What "_models[model_size] = whisper.load_model(model_size)" leaves in the
   cache when the loader raises: the right-hand side is evaluated first, so
   the assignment never happens. *)
CacheAfterFailedLoadPoisoned(k) == [models EXCEPT ![k] = -1]

CacheAfterFailedLoad(k) == models

(* The handler's frame is gone once the handler has returned or raised: its
   locals audio_path and model are no state any more.  (filename and
   model_size, the request's own parameters, stay on record.) *)
DropFrame(r) ==
    /\ audio_path' = [audio_path EXCEPT ![r] = NoPath]
    /\ model' = [model EXCEPT ![r] = NoHandle]
    /\ UNCHANGED model_size

GetModelCheck(r) ==
    /\ pc[r] = "check"
    /\ MayRun(r)
    /\ \E k \in ModelSizes :
         /\ model_size' = [model_size EXCEPT ![r] = k]
         /\ Goto(r, AfterCheck(k))
    /\ UNCHANGED <<models, handles, loadCalls, loadOk, filename, tmp_dir,
                   audio_path, sub_path, model, status, dirs, files, did>>

LoadModelOk(r) ==
    /\ pc[r] = "load"
    /\ MayRun(r)
    /\ LET k == model_size[r] IN
         /\ loadCalls' = [loadCalls EXCEPT ![k] = @ + 1]
         /\ loadOk' = [loadOk EXCEPT ![k] = @ + 1]
         /\ handles' = handles + 1
         /\ models' = [models EXCEPT ![k] = handles + 1]
    /\ did' = [did EXCEPT ![r] = @ \cup {"load"}]
    /\ Goto(r, "ret")
    /\ UNCHANGED <<filename, model_size, tmp_dir, audio_path, sub_path, model,
                   status, dirs, files>>

(* The loader raises: get_model lets it through, and the handler's
   "except Exception" turns it into HTTP 500 (lines 86-87). *)
LoadModelFail(r) ==
    /\ pc[r] = "load"
    /\ MayRun(r)
    /\ LET k == model_size[r] IN
         /\ loadCalls' = [loadCalls EXCEPT ![k] = @ + 1]
         /\ models' = CacheAfterFailedLoad(k)
    /\ did' = [did EXCEPT ![r] = @ \cup {"load"}]
    /\ status' = [status EXCEPT ![r] = 500]
    /\ DropFrame(r)
    /\ Goto(r, "done")
    /\ UNCHANGED <<handles, loadOk, filename, tmp_dir, sub_path, dirs, files>>

(* "return _models[model_size]" *)
ReturnModel(r) ==
    /\ pc[r] = "ret"
    /\ MayRun(r)
    /\ model' = [model EXCEPT ![r] = models[model_size[r]]]
    /\ Goto(r, "transcribe")
    /\ UNCHANGED <<models, handles, loadCalls, loadOk, filename, model_size,
                   tmp_dir, audio_path, sub_path, status, dirs, files, did>>

-----------------------------------------------------------------------------
(* subtitles, lines 60-116. *)

(* The filename check placed after the creation of the directory. *)
ValidateAfterMkdtemp(r) ==
    /\ NextToArrive(r)
    /\ MayRun(r)
    /\ \E fn \in Filenames :
         /\ filename' = [filename EXCEPT ![r] = fn]
         /\ tmp_dir' = [tmp_dir EXCEPT ![r] = MkdtempName(r)]
         /\ dirs' = dirs \cup {MkdtempName(r)}
         /\ did' = [did EXCEPT ![r] = @ \cup {"mkdtemp"}]
         /\ IF fn.parts = <<>>
            THEN /\ status' = [status EXCEPT ![r] = 400]
                 /\ audio_path' = audio_path
                 /\ Goto(r, "done")
            ELSE /\ status' = status
                 /\ audio_path' = [audio_path EXCEPT ![r] = JoinPath(MkdtempName(r), fn)]
                 /\ Goto(r, "read")
    /\ UNCHANGED <<models, handles, loadCalls, loadOk, model_size, sub_path,
                   model, files>>

(* The request arrives with its upload; "if not file.filename: raise
   HTTPException(status_code=400)" (lines 72-73). *)
Validate(r) ==
    /\ NextToArrive(r)
    /\ MayRun(r)
    /\ \E fn \in Filenames :
         /\ filename' = [filename EXCEPT ![r] = fn]
         /\ IF fn.parts = <<>>
            THEN /\ status' = [status EXCEPT ![r] = 400]
                 /\ Goto(r, "done")
            ELSE /\ status' = status
                 /\ Goto(r, "mkdtemp")
    /\ UNCHANGED <<models, handles, loadCalls, loadOk, model_size, tmp_dir,
                   audio_path, sub_path, model, dirs, files, did>>

(* Lines 76-77, up to the await of line 78. *)
Mkdtemp(r) ==
    /\ pc[r] = "mkdtemp"
    /\ MayRun(r)
    /\ tmp_dir' = [tmp_dir EXCEPT ![r] = MkdtempName(r)]
    /\ dirs' = dirs \cup {MkdtempName(r)}
    /\ audio_path' = [audio_path EXCEPT ![r] = JoinPath(MkdtempName(r), filename[r])]
    /\ did' = [did EXCEPT ![r] = @ \cup {"mkdtemp"}]
    /\ Goto(r, "read")
    /\ UNCHANGED <<models, handles, loadCalls, loadOk, filename, model_size,
                   sub_path, model, status, files>>

(* "await file.read()" completes and the coroutine is resumed; then
   audio_path.write_bytes(...).  A write the operating system refuses raises
   out of the handler: a response of 500 with nothing after it. *)
WriteUpload(r) ==
    /\ pc[r] = "read"
    /\ MayRun(r)
    /\ IF CanWrite(audio_path[r])
       THEN /\ files' = files \cup {Resolve(audio_path[r])}
            /\ Goto(r, "check")
            /\ UNCHANGED <<status, model_size, audio_path, model>>
       ELSE /\ status' = [status EXCEPT ![r] = 500]
            /\ DropFrame(r)
            /\ Goto(r, "done")
            /\ files' = files
    /\ UNCHANGED <<models, handles, loadCalls, loadOk, filename, tmp_dir,
                   sub_path, dirs, did>>

(* model.transcribe(...) returns (lines 83-85). *)
TranscribeOk(r) ==
    /\ pc[r] = "transcribe"
    /\ MayRun(r)
    /\ did' = [did EXCEPT ![r] = @ \cup {"transcribe"}]
    /\ Goto(r, "build")
    /\ UNCHANGED <<models, handles, loadCalls, loadOk, filename, model_size,
                   tmp_dir, audio_path, sub_path, model, status, dirs, files>>

(* model.transcribe(...) raises: HTTP 500 (lines 86-87). *)
TranscribeFail(r) ==
    /\ pc[r] = "transcribe"
    /\ MayRun(r)
    /\ did' = [did EXCEPT ![r] = @ \cup {"transcribe"}]
    /\ status' = [status EXCEPT ![r] = 500]
    /\ DropFrame(r)
    /\ Goto(r, "done")
    /\ UNCHANGED <<models, handles, loadCalls, loadOk, filename, tmp_dir,
                   sub_path, dirs, files>>

(* Lines 90-116: the document is built, written beside the upload under the
   extension of the chosen format, and the FileResponse is returned. *)
WriteSubtitles(r) ==
    /\ pc[r] = "build"
    /\ MayRun(r)
    /\ \E ext \in {".srt", ".vtt"} :
         LET sp == WithSuffix(audio_path[r], ext) IN
         IF CanWrite(sp)
         THEN /\ sub_path' = [sub_path EXCEPT ![r] = sp]
              /\ files' = files \cup {Resolve(sp)}
              /\ status' = status
              /\ Goto(r, "send")
         ELSE /\ status' = [status EXCEPT ![r] = 500]
              /\ Goto(r, "done")
              /\ UNCHANGED <<files, sub_path>>
    /\ DropFrame(r)
    /\ UNCHANGED <<models, handles, loadCalls, loadOk, filename, tmp_dir, dirs,
                   did>>

(* The FileResponse is sent; its background task starts after it. *)
SendResponse(r) ==
    /\ pc[r] = "send"
    /\ MayRun(r)
    /\ IF Resolve(sub_path[r]) \in files
       THEN /\ status' = [status EXCEPT ![r] = 200]
            /\ Goto(r, "cleanup")
       ELSE /\ status' = [status EXCEPT ![r] = 500]
            /\ Goto(r, "done")
    /\ sub_path' = [sub_path EXCEPT ![r] = NoPath]
    /\ UNCHANGED <<models, handles, loadCalls, loadOk, filename, model_size,
                   tmp_dir, audio_path, model, dirs, files, did>>

(* cleanup, lines 103-109: one turn of "for p in Path(tmp_dir).iterdir():
   p.unlink()".  Unlinking a directory raises, and the except ends the
   clean-up. *)
CleanupUnlink(r) ==
    /\ pc[r] = "cleanup"
    /\ \E p \in Children(tmp_dir[r]) :
         IF p \in files
         THEN /\ files' = files \ {p}
              /\ ThreadGoto(r, "cleanup")
         ELSE /\ files' = files
              /\ ThreadGoto(r, "done")
    /\ UNCHANGED <<models, handles, loadCalls, loadOk, filename, model_size,
                   tmp_dir, audio_path, sub_path, model, status, dirs, did>>

(* cleanup: the loop is over, os.rmdir(tmp_dir). *)
CleanupRmdir(r) ==
    /\ pc[r] = "cleanup"
    /\ Children(tmp_dir[r]) = {}
    /\ dirs' = dirs \ {tmp_dir[r]}
    /\ ThreadGoto(r, "done")
    /\ UNCHANGED <<models, handles, loadCalls, loadOk, filename, model_size,
                   tmp_dir, audio_path, sub_path, model, status, files, did>>

Next ==
    \E r \in Requests :
        \/ Validate(r)
        \/ Mkdtemp(r)
        \/ WriteUpload(r)
        \/ GetModelCheck(r)
        \/ LoadModelOk(r)
        \/ LoadModelFail(r)
        \/ ReturnModel(r)
        \/ TranscribeOk(r)
        \/ TranscribeFail(r)
        \/ WriteSubtitles(r)
        \/ SendResponse(r)
        \/ CleanupUnlink(r)
        \/ CleanupRmdir(r)

Init == SrvInit /\ FmtIdle

Spec == Init /\ [][Next]_vars

-----------------------------------------------------------------------------
(* SpecFmt: one call of a helper, from its arguments to its result. *)

FmtInit == SrvInit /\ call \in Calls /\ ret = NotReturned

CallFormatTimestamp ==
    /\ call.fn = "format_timestamp"
    /\ ~ret.done
    /\ ret' = Returned(FormatTimestamp(call.seconds))
    /\ UNCHANGED <<call, srvVars>>

CallWrapCaption ==
    /\ call.fn = "wrap_caption"
    /\ ~ret.done
    /\ ret' = Returned(WrapCaption(call.text, call.width))
    /\ UNCHANGED <<call, srvVars>>

CallBuildSrt ==
    /\ call.fn = "build_srt"
    /\ ~ret.done
    /\ ret' = Returned(BuildSrt(call.segments, call.max_chars))
    /\ UNCHANGED <<call, srvVars>>

CallBuildVtt ==
    /\ call.fn = "build_vtt"
    /\ ~ret.done
    /\ ret' = Returned(BuildVtt(call.segments, call.max_chars))
    /\ UNCHANGED <<call, srvVars>>

FmtNext ==
    \/ CallFormatTimestamp
    \/ CallWrapCaption
    \/ CallBuildSrt
    \/ CallBuildVtt

SpecFmt == FmtInit /\ [][FmtNext]_vars

-----------------------------------------------------------------------------
(* Properties of the handler and the cache, under Spec. *)

Finished(r) == pc[r] = "done"

CalledLoader(r) == "load" \in did[r]

(* C1: every request that has created its temporary directory ends with
   the directory, and the files staged in it, deleted: on the successful
   exit, on the failure of the model load and on the failure of the
   transcription. *)
C1_TmpDirDeletedOnEveryExit ==
    \A r \in Requests :
        Finished(r) /\ "mkdtemp" \in did[r]
                    /\ (CalledLoader(r) \/ "transcribe" \in did[r]) =>
            /\ tmp_dir[r] \notin dirs
            /\ \A f \in files : ~IsInside(f, tmp_dir[r])

C2_State ==
    /\ \A k \in ModelSizes : loadOk[k] <= 1
    /\ \A k \in ModelSizes : (models[k] # NoHandle) <=> (loadOk[k] = 1)
    /\ \A r \in Requests :
         model[r] # NoHandle => model[r] = models[model_size[r]]
    /\ \A k1, k2 \in ModelSizes :
         k1 # k2 /\ models[k1] # NoHandle => models[k1] # models[k2]

C2_Step ==
    \A k \in ModelSizes :
        models[k] # NoHandle =>
            /\ models'[k] = models[k]
            /\ loadCalls'[k] = loadCalls[k]

(* C2: once a load for a key has succeeded the cache holds exactly one
   handle for that key for the rest of the run (never evicted, never
   replaced), every later get_model call with the key returns that handle
   and does not invoke the loader, at most one load per key succeeds, and
   different keys hold handles of their own loads. *)
C2_LoadOncePerKey == []C2_State /\ [][C2_Step]_vars

(* A request that was served from the cache: it holds the handle, never
   called the loader, and the loader was called once for its key. *)
C2_Witness ==
    \E r \in Requests :
        /\ model[r] # NoHandle
        /\ ~CalledLoader(r)
        /\ loadCalls[model_size[r]] = 1

C3_FailStep ==
    \A r \in Requests :
        pc[r] = "load" /\ pc'[r] = "done" =>
            /\ models' = models
            /\ models[model_size[r]] = NoHandle
            /\ status'[r] = 500
            /\ model'[r] = NoHandle

C3_RetryStep ==
    \A r \in Requests :
        /\ pc[r] = "check" /\ pc'[r] # "check" /\ loadOk[model_size'[r]] = 0
              => pc'[r] = "load"
        /\ pc[r] = "load" /\ pc'[r] = "ret"
              => /\ models'[model_size[r]] # NoHandle
                 /\ loadOk'[model_size[r]] = 1
        /\ pc[r] = "ret" /\ pc'[r] # "ret"
              => model'[r] = models[model_size[r]] /\ model'[r] # NoHandle

(* C3: a load that fails propagates to the caller (the request ends with
   500 and no handle) and leaves the cache as it was, with no entry for the
   key; so the next get_model call with the key invokes the loader again,
   and a load that then succeeds is stored and returned. *)
C3_FailedLoadNotCached ==
    /\ [](\A k \in ModelSizes : loadOk[k] = 0 => models[k] = NoHandle)
    /\ [][C3_FailStep /\ C3_RetryStep]_vars

(* One request's load failed, and a later call with the same key invoked
   the loader again and was given the handle. *)
C3_Witness ==
    \E r, q \in Requests :
        /\ r # q
        /\ Finished(q) /\ status[q] = 500 /\ CalledLoader(q)
        /\ "transcribe" \notin did[q]
        /\ model_size[q] = model_size[r]
        /\ CalledLoader(r)
        /\ model[r] # NoHandle
        /\ loadCalls[model_size[r]] = 2

(* C4: a request whose upload has an empty filename is answered with 400,
   and at no point of the request is a temporary directory created, a model
   load started or a transcription made. *)
C4_EmptyFilenameRejectedFirst ==
    \A r \in Requests :
        filename[r].parts = <<>> =>
            /\ Finished(r)
            /\ status[r] = 400
            /\ did[r] = {}
            /\ tmp_dir[r] = NoPath
            /\ MkdtempName(r) \notin dirs
            /\ model_size[r] = None
            /\ model[r] = NoHandle

(* A rejected request, next to one that was given a directory. *)
C4_Witness ==
    \E r, q \in Requests :
        /\ filename[r].parts = <<>>
        /\ status[r] = 400
        /\ "mkdtemp" \in did[q]

SameKeyTogether(r, q) ==
    /\ r # q
    /\ {r, q} \in overlapped
    /\ model_size[r] # None
    /\ model_size[r] = model_size[q]

(* C9 as stated: of the requests for one key that are in flight together,
   no two both find the key absent and invoke the loader. *)
C9_LoaderInvokedOnce ==
    \A r, q \in Requests :
        SameKeyTogether(r, q) => ~(CalledLoader(r) /\ CalledLoader(q))

LoadFailedFor(r) ==
    /\ CalledLoader(r)
    /\ Finished(r)
    /\ status[r] = 500
    /\ "transcribe" \notin did[r]

(* C9 as amended: no two requests are between the membership check and
   the store at the same time, the key is still absent whenever the loader
   is invoked, at most one load per key succeeds, and of two requests for
   one key in flight together both invoke the loader only when the load of
   one of them failed. *)
C9_LoadsNeverOverlap ==
    /\ \A r, q \in Requests : r # q => ~(pc[r] = "load" /\ pc[q] = "load")
    /\ \A r \in Requests : pc[r] = "load" => models[model_size[r]] = NoHandle
    /\ \A k \in ModelSizes : loadOk[k] <= 1
    /\ \A r, q \in Requests :
         SameKeyTogether(r, q) /\ CalledLoader(r) /\ CalledLoader(q)
            => LoadFailedFor(r) \/ LoadFailedFor(q)

(* Two requests for one key in flight together: one loaded the model, the
   other was given the handle without a load. *)
C9_Witness ==
    \E r, q \in Requests :
        /\ SameKeyTogether(r, q)
        /\ CalledLoader(q)
        /\ ~CalledLoader(r)
        /\ model[r] # NoHandle
        /\ loadCalls[model_size[r]] = 1

(* C10: whatever the filename, the staged upload and the generated
   document are inside the request's own temporary directory. *)
C10_WritesInsideTmpDir ==
    \A r \in Requests :
        /\ audio_path[r] # NoPath /\ Resolve(audio_path[r]) \in files
              => IsInside(Resolve(audio_path[r]), tmp_dir[r])
        /\ sub_path[r] # NoPath
              => IsInside(Resolve(sub_path[r]), tmp_dir[r])

-----------------------------------------------------------------------------
(* Properties of the helpers, under SpecFmt. *)

(* The fields of t between the characters of seps, empty ones included. *)
Fields(t, seps) ==
    LET cuts   == {i \in 1..Len(t) : t[i] \in seps}
        n      == Cardinality(cuts)
        cut(k) == IF k = 0 THEN 0
                  ELSE IF k = n + 1 THEN Len(t) + 1
                  ELSE CHOOSE i \in cuts :
                           Cardinality({j \in cuts : j < i}) = k - 1
    IN  [k \in 1..(n + 1) |-> SubSeq(t, cut(k - 1) + 1, cut(k) - 1)]

NonEmpty(t) == t # <<>>

(* The words of t: what whitespace separates. *)
Words(t) == SelectSeq(Fields(t, {Space, Newline}), NonEmpty)

IsDigits(t) == \A i \in 1..Len(t) : \E d \in 1..10 : DigitChars[d] = t[i]

DigitVal(c) == (CHOOSE d \in 1..10 : DigitChars[d] = c) - 1

RECURSIVE ParseNat(_)
ParseNat(t) ==
    IF t = <<>> THEN 0
    ELSE 10 * ParseNat(SubSeq(t, 1, Len(t) - 1)) + DigitVal(t[Len(t)])

ReturnedFrom(fn) == call.fn = fn /\ ret.done

(* C5: for no segments build_srt returns the empty string and build_vtt
   returns the header line followed by a blank line, "WEBVTT\n\n". *)
C5_EmptyDocuments ==
    /\ ReturnedFrom("build_srt") /\ call.segments = <<>> => ret.val = <<>>
    /\ ReturnedFrom("build_vtt") /\ call.segments = <<>>
          => ret.val = <<"W", "E", "B", "V", "T", "T", Newline, Newline>>

RECURSIVE BlocksApart(_, _)
(* Blocks 1..n of a family of blocks, each two separated by one blank line:
   a block ends its last line, so one more line feed is one blank line. *)
BlocksApart(block, n) ==
    IF n = 0 THEN <<>>
    ELSE IF n = 1 THEN block[1]
    ELSE BlocksApart(block, n - 1) \o <<Newline>> \o block[n]

(* C6: for n segments build_srt emits exactly n blocks in input order, the
   k-th with index k, the start and end timestamps of the k-th segment and
   that segment's caption text, whatever the time values; consecutive blocks
   are separated by exactly one blank line. *)
C6_SrtBlocksInOrder ==
    ReturnedFrom("build_srt") =>
        LET segs == call.segments
            block == [k \in 1..Len(segs) |->
                        ToStr(k) \o <<Newline>>
                          \o FormatTimestamp(segs[k].start)
                          \o <<" ", "-", "-", ">", " ">>
                          \o FormatTimestamp(segs[k].end) \o <<Newline>>
                          \o Wrapped(segs[k], call.max_chars) \o <<Newline>>]
        IN  ret.val = BlocksApart(block, Len(segs))

(* Three segments, the second starting before the first, one of them with a
   text that overflows two lines. *)
C6_Witness ==
    /\ ReturnedFrom("build_srt")
    /\ Len(call.segments) = 3
    /\ call.segments[2].start < call.segments[1].start
    /\ \E k \in 1..3 :
         WrapCaption(Strip(call.segments[k].text), call.max_chars).isNone
    /\ ret.val # <<>>

(* C7: when wrap_caption does not signal overflow its result has at most
   two lines, each of at most max_width characters, and no word is split
   across lines. *)
C7_WrappedLinesFit ==
    ReturnedFrom("wrap_caption") /\ ~ret.val.isNone =>
        LET lines == Fields(ret.val.str, {Newline})
        IN  /\ Len(lines) <= 2
            /\ \A i \in 1..Len(lines) : Len(lines[i]) <= call.width
            /\ Words(ret.val.str) = Words(call.text)

(* C8: for a whole number m >= 0 of milliseconds the formatted fields are
   hours (at least two digits, not capped), minutes in 0..59 and seconds in
   0..59 (two digits each) and milliseconds in 0..999 (three digits), and
   hours*3600000 + minutes*60000 + seconds*1000 + milliseconds = m. *)
C8_TimestampDecomposes ==
    ReturnedFrom("format_timestamp") /\ call.seconds % 2 = 0 =>
        LET m == call.seconds \div 2
            clock == Fields(ret.val, {","})
            hms == Fields(clock[1], {":"})
        IN  /\ Len(clock) = 2 /\ Len(hms) = 3
            /\ IsDigits(hms[1]) /\ Len(hms[1]) >= 2
            /\ IsDigits(hms[2]) /\ Len(hms[2]) = 2
            /\ IsDigits(hms[3]) /\ Len(hms[3]) = 2
            /\ IsDigits(clock[2]) /\ Len(clock[2]) = 3
            /\ ParseNat(hms[2]) \in 0..59
            /\ ParseNat(hms[3]) \in 0..59
            /\ ParseNat(clock[2]) \in 0..999
            /\ ParseNat(hms[1]) * 3600000 + ParseNat(hms[2]) * 60000
                 + ParseNat(hms[3]) * 1000 + ParseNat(clock[2]) = m

(* A timestamp of a hundred hours and more: the hours take three digits. *)
C8_Witness ==
    /\ ReturnedFrom("format_timestamp")
    /\ call.seconds = 2 * (100 * MsPerHour + 3599999)
    /\ Len(ret.val) = 13

=============================================================================
